---- MODULE Spec2Model ----
(***************************************************************************)
(* The sensor pipeline of NerveCenter: HardwareMonitor (monitor.py), the   *)
(* worker and window shutdown of ui.py, and AlertManager (alerts.py).      *)
(*                                                                         *)
(* Numbers are exact rationals [n, d] in lowest terms: Python's float      *)
(* division is modelled as exact division. Where rounding matters (the     *)
(* factor and the Bus Speed it is recorded from) the two divisions are     *)
(* also carried out in IEEE 754 doubles (factor_double, bus_double).       *)
(***************************************************************************)
EXTENDS Integers, Sequences, FiniteSets, TLC

\* ------------------------------------------------------------------ bounds
\* Longest feed line (hardware nodes per line) drawn for the sanitizer.
MaxNodes == 2
\* Worker ticks the alert clock advances through.
MaxTicks == 5

\* ------------------------------------------------------ program constants
\* monitor.py:105  "bus_speed_sensor['Value'] > 150"
BusSpeedLimit == 150
\* monitor.py:111  "bus_speed_sensor['Value'] / 100.0"
NominalBus == 100
\* alerts.py:51    "now - self.last_alert_time[name] < 10"
DebounceSeconds == 10

\* ------------------------------------------------------------ JSON scalars
Gcd[a \in Nat, b \in Nat] == IF b = 0 THEN a ELSE Gcd[b, a % b]

Abs(x) == IF x < 0 THEN -x ELSE x

\* A number n/d in lowest terms, d > 0.
Num(n, d) ==
    LET g == Gcd[Abs(n), Abs(d)]
        s == IF d < 0 THEN -1 ELSE 1
    IN  [k |-> "num", n |-> (s * n) \div g, d |-> (s * d) \div g]

Whole(n) == [k |-> "num", n |-> n, d |-> 1]
\* JSON null, the None of Python.
None == [k |-> "null", n |-> 0, d |-> 1]
\* The field of a sensor whose key is missing from the dict: dict.get returns
\* None for it, and nothing but an assignment creates the key.
Absent == [k |-> "absent", n |-> 0, d |-> 1]
\* A non-empty JSON string where a number is expected.
Str == [k |-> "str", n |-> 0, d |-> 1]

\* Python truthiness of what dict.get returns for a scalar field: None (a
\* null or a missing key) and 0 are falsy.
Truthy(v) == (v.k = "num" /\ v.n # 0) \/ v.k = "str"

\* v > limit for a number v and an integer limit (a str raises instead).
GreaterThan(v, limit) == v.n > limit * v.d

\* x / f for numbers x and f, f # 0.
Div(x, f) == Num(x.n * f.d, x.d * f.n)

\* ------------------------------------------------- IEEE 754 double division
\* Python's float is the 64-bit double: 53 significant bits, round to nearest,
\* ties to even. A double is held as an integer significand of 53 bits in two
\* limbs, hi * 2^27 + lo, and a binary exponent e: (hi * 2^27 + lo) * 2^e.
Limb == 134217728

\* The double of a whole number below 2^27 (exact).
FloatOf(v) == [hi |-> 0, lo |-> v, e |-> 0]

\* No double: the attribute is None.
NoFloat == [hi |-> 0, lo |-> 0, e |-> 0]

\* Mutant of RoundHalfEven: the quotient truncated to 53 bits.
RoundDown(qh, ql, exact, e) ==
    [hi |-> qh \div 2, lo |-> ql \div 2 + (qh % 2) * (Limb \div 2), e |-> e + 1]

Less(ah, al, bh, bl) == ah < bh \/ (ah = bh /\ al < bl)

\* The 54-bit quotient q (53 bits and a guard bit) of exponent e rounded to
\* 53 bits, ties to even; a carry out of the 53 bits halves the significand
\* again.
RoundHalfEven(qh, ql, exact, e) ==
    LET guard == ql % 2
        mh == qh \div 2
        ml == ql \div 2 + (qh % 2) * (Limb \div 2)
        up == guard = 1 /\ (~exact \/ ml % 2 = 1)
        uh == IF up /\ ml + 1 = Limb THEN mh + 1 ELSE mh
        ul == IF up THEN (ml + 1) % Limb ELSE ml
    IN  IF uh = Limb \div 2
        THEN [hi |-> uh \div 2, lo |-> 0, e |-> e + 2]
        ELSE [hi |-> uh, lo |-> ul, e |-> e + 1]

\* n more quotient bits of r / d by shift and subtract, appended to q; the
\* remainder left tells whether the quotient is exact; then the rounding.
QuotientBits[rh, rl, dh, dl, qh, ql, n \in Nat, e \in Int] ==
    IF n = 0
    THEN RoundHalfEven(qh, ql, rh = 0 /\ rl = 0, e)
    ELSE LET bit == IF Less(rh, rl, dh, dl) THEN 0 ELSE 1
             sh == IF bit = 0 THEN rh
                   ELSE IF rl >= dl THEN rh - dh ELSE rh - dh - 1
             sl == IF bit = 0 THEN rl
                   ELSE IF rl >= dl THEN rl - dl ELSE rl + Limb - dl
         IN  QuotientBits[2 * sh + (2 * sl) \div Limb, (2 * sl) % Limb, dh, dl,
                          2 * qh + (2 * ql + bit) \div Limb,
                          (2 * ql + bit) % Limb, n - 1, e]

\* Dividend r and divisor d brought to d <= r < 2d by doubling one of them,
\* e following the doublings; then the 54 quotient bits.
Align[rh, rl, dh, dl \in Nat, e \in Int] ==
    IF Less(rh, rl, dh, dl)
    THEN Align[2 * rh + (2 * rl) \div Limb, (2 * rl) % Limb, dh, dl, e - 1]
    ELSE IF ~Less(rh, rl, 2 * dh + (2 * dl) \div Limb, (2 * dl) % Limb)
    THEN Align[rh, rl, 2 * dh + (2 * dl) \div Limb, (2 * dl) % Limb, e + 1]
    ELSE QuotientBits[rh, rl, dh, dl, 0, 0, 54, e]

\* x / y for doubles x, y > 0: the correctly rounded quotient.
FloatDiv(x, y) == Align[x.hi, x.lo, y.hi, y.lo, x.e - y.e - 53]

\* --------------------------------------------------- monitor.py: sanitizer
Sensor(name, type, value, min, max) ==
    [Name |-> name, Type |-> type, Value |-> value, Min |-> min, Max |-> max]

Hardware(name, type, sensors) ==
    [Name |-> name, Type |-> type, Sensors |-> sensors]

\* Lines 97-101: the index of the first sensor named Bus Speed of type Clock,
\* 0 when the node has none.
RECURSIVE FindBusSpeed(_, _)
FindBusSpeed(sensors, i) ==
    IF i > Len(sensors) THEN 0
    ELSE IF sensors[i].Name = "Bus Speed" /\ sensors[i].Type = "Clock" THEN i
    ELSE FindBusSpeed(sensors, i + 1)

\* Mutant of IsUnreasonable: ">= 150" for "> 150".
IsUnreasonableInclusive(value) == value.n >= BusSpeedLimit * value.d

\* Line 105, after the truthiness test: the reading is unreasonable.
IsUnreasonable(value) == GreaterThan(value, BusSpeedLimit)

\* Mutant of FactorAfter: the "is None" test dropped, the factor recomputed
\* from every unreasonable reading.
FactorRecomputed(factor, value) == Div(value, Whole(NominalBus))

\* Lines 110-111: the factor after an unreasonable reading.
FactorAfter(factor, value) ==
    IF factor = None THEN Div(value, Whole(NominalBus)) ELSE factor

\* Mutant of CorrectField: "s[F] = (s.get(F) or 0) / factor", which writes a
\* zero into a field that is null or missing.
CorrectFieldOrZero(v, factor) ==
    IF Truthy(v) THEN Div(v, factor) ELSE Whole(0)

\* Lines 117-118, 123-125: "if s.get(F): s[F] /= factor".
CorrectField(v, factor) == IF Truthy(v) THEN Div(v, factor) ELSE v

\* Mutant of IsOtherClock: the name test dropped, so that the second loop
\* divides the Bus Speed sensor again.
IsAnyClock(sensor) == sensor.Type = "Clock"

\* Mutant of IsOtherClock: the type test dropped, so that the second loop
\* divides sensors of every type.
IsNotBusSpeed(sensor) == sensor.Name # "Bus Speed"

\* Line 122: a sensor the second loop corrects.
IsOtherClock(sensor) == sensor.Type = "Clock" /\ sensor.Name # "Bus Speed"

CorrectSensor(sensor, factor) ==
    [sensor EXCEPT !.Value = CorrectField(@, factor),
                   !.Min = CorrectField(@, factor),
                   !.Max = CorrectField(@, factor)]

\* A field whose in-place division raises TypeError (a str divided by a float).
FieldRaises(v) == v.k = "str"

\* Mutant of CorrectSensors: each node divided by the ratio of its own Bus
\* Speed reading instead of the stored factor.
CorrectSensorsByOwnRatio(sensors, b, factor) ==
    LET own == Div(sensors[b].Value, Whole(NominalBus))
        fixed == [sensors EXCEPT ![b] = CorrectSensor(@, own)]
    IN  [i \in 1..Len(fixed) |->
            IF fixed[i].Type = "Clock" /\ fixed[i].Name # "Bus Speed"
            THEN CorrectSensor(fixed[i], own)
            ELSE fixed[i]]

\* Lines 116-125 applied to the sensors of one node whose Bus Speed sensor is
\* at index b: the Bus Speed sensor first, then the loop over the sensors.
CorrectSensors(sensors, b, factor) ==
    LET fixed == [sensors EXCEPT ![b] = CorrectSensor(@, factor)]
    IN  [i \in 1..Len(fixed) |->
            IF IsOtherClock(fixed[i])
            THEN CorrectSensor(fixed[i], factor)
            ELSE fixed[i]]

\* Lines 116-125 raise when a field they divide is a str.
CorrectionRaises(sensors, b) ==
    \E i \in 1..Len(sensors) :
        /\ i = b \/ IsOtherClock(sensors[i])
        /\ \/ (i # b /\ FieldRaises(sensors[i].Value))
           \/ FieldRaises(sensors[i].Min)
           \/ FieldRaises(sensors[i].Max)

\* Line 105: the node is corrected in this cycle; b is its Bus Speed index.
NeedsCorrection(hw, b) ==
    /\ hw.Type = "Cpu"
    /\ b # 0
    /\ Truthy(hw.Sensors[b].Value)
    /\ hw.Sensors[b].Value.k = "num"
    /\ IsUnreasonable(hw.Sensors[b].Value)

\* Line 105 raises TypeError comparing a str with 150.
ComparisonRaises(hw, b) ==
    hw.Type = "Cpu" /\ b # 0 /\ hw.Sensors[b].Value.k = "str"

\* Lines 95-125: one iteration of "for hw in data": the node and the factor
\* after it, and whether the iteration raised (the factor is assigned at line
\* 111 before lines 116-125 can raise).
SanitizeNode(hw, factor) ==
    LET b == FindBusSpeed(hw.Sensors, 1)
    IN  IF ComparisonRaises(hw, b)
        THEN [hw |-> hw, factor |-> factor, raised |-> TRUE]
        ELSE IF ~NeedsCorrection(hw, b)
        THEN [hw |-> hw, factor |-> factor, raised |-> FALSE]
        ELSE LET f == FactorAfter(factor, hw.Sensors[b].Value)
             IN  IF CorrectionRaises(hw.Sensors, b)
                 THEN [hw |-> hw, factor |-> f, raised |-> TRUE]
                 ELSE [hw |-> [hw EXCEPT !.Sensors = CorrectSensors(@, b, f)],
                       factor |-> f, raised |-> FALSE]

\* Lines 94-127 over nodes i..Len(nodes): the whole loop, stopping where an
\* iteration raises.
RECURSIVE _sanitize_data(_, _, _)
_sanitize_data(nodes, i, factor) ==
    IF i > Len(nodes)
    THEN [nodes |-> nodes, factor |-> factor, raised |-> FALSE]
    ELSE LET r == SanitizeNode(nodes[i], factor)
         IN  IF r.raised
             THEN [nodes |-> nodes, factor |-> r.factor, raised |-> TRUE]
             ELSE _sanitize_data([nodes EXCEPT ![i] = r.hw], i + 1, r.factor)

\* Mutant of LoopDone: "return data" indented into the for loop, so that
\* _sanitize_data returns after its first iteration.
LoopDoneEarly(nodes, i) == i > 1

\* Line 94 to 127: the for loop has gone through every node (return data).
LoopDone(nodes, i) == i > Len(nodes)

\* ------------------------------------------------------------- feed lines
\* A parsed JSON value: an array of hardware nodes, or a value of another
\* shape; empty is Python's "not data" (null, false, 0, "", {}, []).
JArray(nodes) == [k |-> "array", empty |-> nodes = <<>>, nodes |-> nodes]
JValue(kind, empty) == [k |-> kind, empty |-> empty, nodes |-> <<>>]

\* One line of the process's output: JSON text, or text json.loads rejects.
JsonLine(value) == [valid |-> TRUE, json |-> value]
Garbage == [valid |-> FALSE, json |-> JValue("null", TRUE)]

\* Line 68: json.loads(line): the value, or JSONDecodeError.
JsonLoads(l) == [ok |-> l.valid, value |-> l.json]

\* Line 91: "if not data".
Falsy(value) == value.empty

Bus300 == Sensor("Bus Speed", "Clock", Whole(300), Whole(100), Whole(600))
Bus600 == Sensor("Bus Speed", "Clock", Whole(600), Whole(0), Whole(600))
Bus150 == Sensor("Bus Speed", "Clock", Whole(150), None, Whole(300))
BusStr == Sensor("Bus Speed", "Clock", Str, None, None)
Core == Sensor("Core Clock", "Clock", Whole(3000), None, Whole(6000))
Temp == Sensor("CPU Temperature", "Temperature", Whole(60), Whole(30), Whole(90))
\* Readings whose quotient by 100.0 is not a double.
Bus486 == Sensor("Bus Speed", "Clock", Whole(486), None, Whole(486))
Bus201 == Sensor("Bus Speed", "Clock", Whole(201), None, None)
\* Sensors with keys missing from their dicts.
BusNoMin == Sensor("Bus Speed", "Clock", Whole(300), Absent, None)
CoreNoValue == Sensor("Core Clock", "Clock", Absent, Whole(3000), Absent)
Core24165 == Sensor("Core Clock", "Clock", Whole(24165), None, None)

\* The lines the external process emits in the concurrent specification:
\* arrays of nodes, the falsy values [], null, {}, 0, "" and false, a number
\* other than 0, and a line that is no JSON.
FeedLines ==
    { JsonLine(JArray(<<Hardware("Cpu0", "Cpu", <<Bus300, Core, Temp>>),
                        Hardware("Cpu1", "Cpu", <<Core, Bus600>>)>>)),
      JsonLine(JArray(<<Hardware("Cpu0", "Cpu", <<Bus600, Core>>),
                        Hardware("Gpu0", "Gpu", <<Bus300, Core>>)>>)),
      JsonLine(JArray(<<Hardware("Cpu0", "Cpu", <<Bus150, Core, Temp>>)>>)),
      JsonLine(JArray(<<Hardware("Cpu0", "Cpu", <<Bus300, Core>>),
                        Hardware("Cpu1", "Cpu", <<BusStr>>)>>)),
      JsonLine(JArray(<<>>)),
      JsonLine(JValue("null", TRUE)),
      JsonLine(JValue("object", TRUE)),
      JsonLine(JValue("number", TRUE)),
      JsonLine(JValue("string", TRUE)),
      JsonLine(JValue("boolean", TRUE)),
      JsonLine(JValue("number", FALSE)),
      Garbage }

\* ------------------------------------------------------------------ state
VARIABLES
    process,                \* self.process: "None" or "Popen"
    proc_alive,             \* the external process is running
    running,                \* self.running
    thread,                 \* the read loop thread's position
    line,                   \* _read_loop's local: the last line read
    data,                   \* _read_loop's local: the parsed line being sanitized
    hw_i,                   \* _sanitize_data's position in "for hw in data"
    current_data,           \* self.current_data
    bus_correction_factor,  \* self.bus_correction_factor
    decode_warned,          \* the log holds a "Failed to decode JSON" warning
    factor_double,          \* the double self.bus_correction_factor holds
    bus_double,             \* the double line 116 left in the Bus Speed Value
                            \* of the node the factor was recorded from
    closing,                \* closeEvent's and close()'s position
    worker_running,         \* MonitorWorker.running
    worker,                 \* the worker thread's position
    emitted,                \* the data of the worker's last data_updated signal
    alerts,                 \* AlertManager.alerts: sensor name -> rule
    last_alert_time,        \* AlertManager.last_alert_time: sensor name -> time
    now,                    \* the clock time.time() reads, in seconds
    ui_data,                \* the argument of the last check_alerts call
    triggers,               \* the _trigger_alert calls of the last check_alerts
    dispatched,             \* the notification tasks the last check_alerts spawned
    check_raised,           \* the last check_alerts call raised
    dispatch_total,         \* sensor name -> dispatches so far
    tasks                   \* the threads the last check_alerts call started

monitorVars == <<process, proc_alive, running, thread, line, data, hw_i,
                 current_data, bus_correction_factor, decode_warned,
                 factor_double, bus_double>>
uiVars == <<closing, worker_running, worker, emitted>>
alertVars == <<alerts, last_alert_time, now, ui_data, triggers, dispatched,
               check_raised, dispatch_total, tasks>>
vars == <<monitorVars, uiVars, alertVars>>

\* --------------------------------------------------------------- alerts.py
\* ui.py 37: the worker sleeps 2 seconds between two evaluations.
TickSeconds == 2

\* The sensor names rules are set for.
AlertNames == {"CPU Temperature", "Fan Speed"}

\* alerts.py 13-18: the rules set_alert is called with.
Rule(min, max, sound, notify) ==
    [min |-> min, max |-> max, sound |-> sound, notify |-> notify]

RulePool ==
    { Rule(None, Whole(85), TRUE, TRUE),
      Rule(Whole(20), None, TRUE, FALSE),
      Rule(Whole(20), Whole(85), FALSE, TRUE),
      Rule(Whole(85), Whole(20), FALSE, FALSE) }

\* The snapshots the window passes to check_alerts: two nodes of one sensor
\* each; the second sensor has the name of the first, or a name without rule.
Reading(name, value) == Sensor(name, "Temperature", value, None, None)

AlertSnapshots ==
    { <<Hardware("Cpu0", "Cpu", <<Reading("CPU Temperature", v)>>),
        Hardware("Gpu0", "Gpu", <<Reading(n, w)>>)>> :
        v \in {None, Whole(10), Whole(20), Whole(50), Whole(85), Whole(90)},
        n \in {"CPU Temperature", "Fan Speed", "GPU Load"},
        w \in {None, Whole(90)} }

\* Snapshots of persistent breaches: a high temperature with a slow fan, the
\* same sensor name on two nodes, and a reading within every rule's bounds.
BreachSnapshots ==
    { <<Hardware("Cpu0", "Cpu", <<Reading("CPU Temperature", Whole(90))>>),
        Hardware("Gpu0", "Gpu", <<Reading("Fan Speed", Whole(10))>>)>>,
      <<Hardware("Cpu0", "Cpu", <<Reading("CPU Temperature", Whole(90))>>),
        Hardware("Gpu0", "Gpu", <<Reading("CPU Temperature", Whole(10))>>)>>,
      <<Hardware("Cpu0", "Cpu", <<Reading("CPU Temperature", Whole(50))>>),
        Hardware("Gpu0", "Gpu", <<Reading("GPU Load", Whole(90))>>)>> }

EmptyMap == [n \in {} |-> None]

\* alerts.py 7-10, with the clock at 0.
AlertInit ==
    /\ alerts = EmptyMap
    /\ last_alert_time = EmptyMap
    /\ now = 0
    /\ ui_data = <<>>
    /\ triggers = <<>>
    /\ dispatched = <<>>
    /\ check_raised = FALSE
    /\ dispatch_total = [n \in AlertNames |-> 0]
    /\ tasks = <<>>

\* Mutant of _flatten_data: each node's sensors put in front of those of the
\* nodes before it.
RECURSIVE FlattenReversed(_, _)
FlattenReversed(nodes, i) ==
    IF i > Len(nodes) THEN <<>>
    ELSE FlattenReversed(nodes, i + 1) \o nodes[i].Sensors

\* alerts.py 64-69: the sensors of every node, in order.
RECURSIVE _flatten_data(_, _)
_flatten_data(nodes, i) ==
    IF i > Len(nodes) THEN <<>>
    ELSE nodes[i].Sensors \o _flatten_data(nodes, i + 1)

Greater(a, b) == a.n * b.d > b.n * a.d

\* alerts.py 37-42: the comparisons raise TypeError on a None value; with no
\* bound set no comparison is made.
CompareRaises(val, config) ==
    val.k # "num" /\ (config.max # None \/ config.min # None)

\* alerts.py 34-42: "High", "Low", or "" when nothing is triggered.
Breach(val, config) ==
    IF config.max # None /\ Greater(val, config.max) THEN "High"
    ELSE IF config.min # None /\ Greater(config.min, val) THEN "Low"
    ELSE ""

\* Mutant of Debounced: "<= 10" for "< 10".
DebouncedInclusive(last, name, t) ==
    name \in DOMAIN last /\ t - last[name] <= DebounceSeconds

\* alerts.py 50-52: the trigger is suppressed.
Debounced(last, name, t) ==
    name \in DOMAIN last /\ t - last[name] < DebounceSeconds

\* Mutant of MapSet: the dict is rebuilt with the one entry ("d = {key:
\* value}").
MapSetAlone(m, key, value) == [k \in {key} |-> value]

\* alerts.py 13, 54: "d[key] = value" on a dict.
MapSet(m, key, value) ==
    [k \in DOMAIN m \cup {key} |-> IF k = key THEN value ELSE m[k]]

\* alerts.py 58, 62: "threading.Thread(target=..., daemon=True).start()": a
\* started thread, which nothing joins.
Thread(target, name, msg) ==
    [target |-> target, name |-> name, msg |-> msg, state |-> "started"]

\* Mutant of Threads: the two flag tests dropped, both threads started for
\* every dispatch.
ThreadsAlways(name, msg, config) ==
    <<Thread("MessageBeep", name, msg), Thread("show_toast", name, msg)>>

\* alerts.py 56-62: the threads one dispatch starts, in order.
Threads(name, msg, config) ==
    (IF config.sound THEN <<Thread("MessageBeep", name, msg)>> ELSE <<>>)
        \o (IF config.notify THEN <<Thread("show_toast", name, msg)>>
            ELSE <<>>)

\* Mutant of _trigger_alert: the fire time assigned before the debounce test,
\* so that a suppressed trigger restarts the 10 s window.
TriggerAlertPushesBack(st, name, msg, config, t) ==
    IF Debounced(st.last, name, t)
    THEN [st EXCEPT !.last = MapSet(@, name, t)]
    ELSE [st EXCEPT !.last = MapSet(@, name, t),
                    !.spawned = Append(@, [name |-> name, msg |-> msg,
                                           sound |-> config.sound,
                                           notify |-> config.notify]),
                    !.tasks = @ \o Threads(name, msg, config)]

\* alerts.py 47-62: _trigger_alert at clock t, on the state st of one
\* check_alerts call: st.last is last_alert_time, st.spawned the dispatches
\* made (the triggers that were not suppressed), st.tasks the threads started.
_trigger_alert(st, name, msg, config, t) ==
    IF Debounced(st.last, name, t)
    THEN st
    ELSE [st EXCEPT !.last = MapSet(@, name, t),
                    !.spawned = Append(@, [name |-> name, msg |-> msg,
                                           sound |-> config.sound,
                                           notify |-> config.notify]),
                    !.tasks = @ \o Threads(name, msg, config)]

\* Mutant of SensorRaises: the rule is looked up before the "in" test, so a
\* sensor without a rule raises KeyError.
SensorRaisesLookupFirst(sensor, rules) ==
    \/ sensor.Name \notin DOMAIN rules
    \/ CompareRaises(sensor.Value, rules[sensor.Name])

\* alerts.py 31-42: what one sensor of the loop can raise: nothing when its
\* name has no rule (line 31 skips it), else KeyError at line 31 when it has
\* no Value key, else what the comparisons raise.
SensorRaises(sensor, rules) ==
    /\ sensor.Name \in DOMAIN rules
    /\ \/ sensor.Value = Absent
       \/ CompareRaises(sensor.Value, rules[sensor.Name])

\* alerts.py 28-45: the loop of check_alerts from sensor i on; st.calls are
\* the _trigger_alert calls made, st.raised whether a comparison raised.
RECURSIVE CheckFrom(_, _, _, _, _)
CheckFrom(sensors, i, rules, t, st) ==
    IF i > Len(sensors) THEN st
    ELSE LET name == sensors[i].Name
             val == sensors[i].Value
         IN  IF SensorRaises(sensors[i], rules)
             THEN [st EXCEPT !.raised = TRUE]
             ELSE IF name \notin DOMAIN rules
             THEN CheckFrom(sensors, i + 1, rules, t, st)
             ELSE IF Breach(val, rules[name]) = ""
             THEN CheckFrom(sensors, i + 1, rules, t, st)
             ELSE LET msg == [kind |-> Breach(val, rules[name]), value |-> val]
                      called == [st EXCEPT !.calls =
                                    Append(@, [name |-> name, msg |-> msg])]
                  IN  CheckFrom(sensors, i + 1, rules, t,
                                _trigger_alert(called, name, msg, rules[name], t))

\* How many elements of seq have the name n.
CountOf(seq, n) == Cardinality({i \in 1..Len(seq) : seq[i].name = n})

NoData == JArray(<<>>)

\* monitor.py 14-57 and ui.py 182-193: the state once the window is built.
\* start_process either started the process and the thread, or failed.
Init ==
    /\ \/ process = "Popen" /\ proc_alive = TRUE /\ running = TRUE
          /\ thread = "while"
       \/ process = "None" /\ proc_alive = FALSE /\ running = FALSE
          /\ thread = "none"
    /\ line = Garbage
    /\ data = NoData
    /\ hw_i = 1
    /\ current_data = <<>>
    /\ bus_correction_factor = None
    /\ decode_warned = FALSE
    /\ factor_double = NoFloat
    /\ bus_double = NoFloat
    /\ closing = "open"
    /\ worker_running = TRUE
    /\ worker = "loop"
    /\ emitted = <<>>
    /\ AlertInit

\* ---------------------------------------------------- monitor.py: read loop
\* Line 60: "while self.running and self.process".
LoopCheck ==
    /\ thread = "while"
    /\ thread' = IF running /\ process # "None" THEN "readline" ELSE "ended"
    /\ UNCHANGED <<process, proc_alive, running, line, data, hw_i,
                   current_data, bus_correction_factor, decode_warned,
                   factor_double, bus_double,
                   uiVars, alertVars>>

\* Lines 70-73: the JSONDecodeError handler logs a warning (the line is not
\* blank) and falls through to the next pass of the while loop.
AfterDecodeErrorBreaks == "ended"

AfterDecodeError == "while"

\* Lines 62-73: readline returns a line; json.loads parses it, or raises
\* JSONDecodeError, which is logged and the loop continues.
ReadLine ==
    /\ thread = "readline"
    /\ process = "Popen"
    /\ proc_alive
    /\ \E l \in FeedLines :
        /\ line' = l
        /\ IF JsonLoads(l).ok
           THEN /\ data' = JsonLoads(l).value /\ hw_i' = 1
                /\ thread' = "sanitize"
                /\ UNCHANGED decode_warned
           ELSE /\ UNCHANGED <<data, hw_i>>
                /\ thread' = AfterDecodeError
                /\ decode_warned' = TRUE
    /\ UNCHANGED <<process, proc_alive, running, current_data,
                   bus_correction_factor, factor_double, bus_double,
                   uiVars, alertVars>>

\* Lines 63-65: "if not line: ... break": end of stream leaves the loop.
AfterEOFContinues == "while"

AfterEOF == "ended"

\* Lines 63-65: readline returns "" once the process has exited.
ReadEOF ==
    /\ thread = "readline"
    /\ process = "Popen"
    /\ ~proc_alive
    /\ thread' = AfterEOF
    /\ UNCHANGED <<process, proc_alive, running, line, data, hw_i,
                   current_data, bus_correction_factor, decode_warned,
                   factor_double, bus_double,
                   uiVars, alertVars>>

\* Lines 75-77: "except Exception: ... break": a read error leaves the loop.
AfterReadErrorContinues == "while"

AfterReadError == "ended"

\* Lines 62, 75-77: close() has set self.process to None; None.stdout raises
\* AttributeError, caught by "except Exception", which breaks.
ReadError ==
    /\ thread = "readline"
    /\ process = "None"
    /\ thread' = AfterReadError
    /\ UNCHANGED <<process, proc_alive, running, line, data, hw_i,
                   current_data, bus_correction_factor, decode_warned,
                   factor_double, bus_double,
                   uiVars, alertVars>>

\* Mutant of SanitizedFalsy: the stored snapshot kept, as for a line that
\* does not parse.
SanitizedFalsyKept(stored) == stored

\* Lines 91-92: "if not data: return []", whatever snapshot is stored.
SanitizedFalsy(stored) == <<>>

\* Lines 69, 91-92: falsy data: _sanitize_data returns [] and it is stored.
SanitizeEmpty ==
    /\ thread = "sanitize"
    /\ Falsy(data)
    /\ current_data' = SanitizedFalsy(current_data)
    /\ thread' = "while"
    /\ UNCHANGED <<process, proc_alive, running, line, data, hw_i,
                   bus_correction_factor, decode_warned,
                   factor_double, bus_double,
                   uiVars, alertVars>>

\* Lines 94-95, 75-77: truthy data that is no array of objects: iterating it
\* or calling .get on its elements raises TypeError or AttributeError, caught
\* by "except Exception", which breaks.
SanitizeBadShape ==
    /\ thread = "sanitize"
    /\ ~Falsy(data)
    /\ data.k # "array"
    /\ thread' = "ended"
    /\ UNCHANGED <<process, proc_alive, running, line, data, hw_i,
                   current_data, bus_correction_factor, decode_warned,
                   factor_double, bus_double,
                   uiVars, alertVars>>

\* The reading of a node's Bus Speed sensor, a whole number in every feed.
BusReading(hw) == hw.Sensors[FindBusSpeed(hw.Sensors, 1)].Value.n

\* Lines 111 and 116 in doubles, for the reading v that sets the factor: the
\* factor v / 100.0, and the Bus Speed Value v divided by that factor.
Doubles(v) ==
    CHOOSE fl \in {[factor |-> f, bus |-> FloatDiv(FloatOf(v), f)] :
                      f \in {FloatDiv(FloatOf(v), FloatOf(NominalBus))}} : TRUE

\* Lines 94-125: one iteration of the for loop, in place on the local data; an
\* iteration that raises ends the thread through "except Exception".
SanitizeStep ==
    /\ thread = "sanitize"
    /\ ~Falsy(data)
    /\ data.k = "array"
    /\ ~LoopDone(data.nodes, hw_i)
    /\ \E r \in {SanitizeNode(data.nodes[hw_i], bus_correction_factor)} :
           /\ bus_correction_factor' = r.factor
           /\ IF bus_correction_factor = None /\ r.factor # None
              THEN \E fl \in {Doubles(BusReading(data.nodes[hw_i]))} :
                      /\ factor_double' = fl.factor
                      /\ bus_double' = fl.bus
              ELSE UNCHANGED <<factor_double, bus_double>>
           /\ IF r.raised
              THEN thread' = "ended" /\ UNCHANGED <<data, hw_i>>
              ELSE /\ data' = [data EXCEPT !.nodes[hw_i] = r.hw]
                   /\ hw_i' = hw_i + 1
                   /\ thread' = "sanitize"
    /\ UNCHANGED <<process, proc_alive, running, line, current_data,
                   decode_warned, uiVars, alertVars>>

\* Lines 127, 69: _sanitize_data returns data; it is stored in current_data.
Publish ==
    /\ thread = "sanitize"
    /\ ~Falsy(data)
    /\ data.k = "array"
    /\ LoopDone(data.nodes, hw_i)
    /\ current_data' = data.nodes
    /\ thread' = "while"
    /\ UNCHANGED <<process, proc_alive, running, line, data, hw_i,
                   bus_correction_factor, decode_warned,
                   factor_double, bus_double,
                   uiVars, alertVars>>

\* The external process exits by itself (readline then returns "").
ProcessExits ==
    /\ process = "Popen"
    /\ proc_alive
    /\ proc_alive' = FALSE
    /\ UNCHANGED <<process, running, thread, line, data, hw_i, current_data,
                   bus_correction_factor, decode_warned,
                   factor_double, bus_double,
                   uiVars, alertVars>>

\* Lines 81-83: get_data returns the attribute, with no lock and no copy.
get_data_cached == emitted

get_data == current_data

\* ------------------------------------------------------- ui.py: the worker
\* ui.py 28-37: one pass of MonitorWorker.run: get_data, emit, sleep.
WorkerTick ==
    /\ worker = "loop"
    /\ worker_running
    /\ emitted' = get_data
    /\ UNCHANGED <<alertVars, monitorVars, closing, worker_running, worker>>

\* ui.py 28, 38: the loop condition fails and run returns.
WorkerExit ==
    /\ worker = "loop"
    /\ ~worker_running
    /\ worker' = "stopped"
    /\ UNCHANGED <<alertVars, monitorVars, closing, worker_running, emitted>>

\* ------------------------------------------- ui.py closeEvent, monitor.close
\* ui.py 496, 40-41: closeEvent calls worker.stop().
CloseEventStop ==
    /\ closing = "open"
    /\ worker_running' = FALSE
    /\ closing' = "wait"
    /\ UNCHANGED <<alertVars, monitorVars, worker, emitted>>

\* ui.py 497-498: worker.wait() returns once the worker's run has returned;
\* monitor.close() is called next.
CloseEventWait ==
    /\ closing = "wait"
    /\ worker = "stopped"
    /\ closing' = "close"
    /\ UNCHANGED <<alertVars, monitorVars, worker_running, worker, emitted>>

\* monitor.py 131: "if self.process:" guards terminate, wait, kill and the
\* release of the handle; without a process close() returns at once.
CloseTargetUnguarded(p) == "terminate"

CloseTarget(p) == IF p # "None" THEN "terminate" ELSE "returned"

\* monitor.py 130-131: close() clears running and tests self.process.
CloseBegin ==
    /\ closing = "close"
    /\ running' = FALSE
    /\ closing' = CloseTarget(process)
    /\ UNCHANGED <<process, proc_alive, thread, line, data, hw_i, current_data,
                   bus_correction_factor, decode_warned,
                   factor_double, bus_double, worker_running, worker,
                   emitted, alertVars>>

\* monitor.py 135-137: the bare except that catches TimeoutExpired goes on to
\* kill() and wait().
AfterTimeoutSwallowed == "sleep"

AfterTimeout == "kill"

\* monitor.py 133-135: terminate() and wait(timeout=1): the process exits
\* within the timeout, or wait raises TimeoutExpired.
CloseTerminate ==
    /\ closing = "terminate"
    /\ \/ proc_alive' = FALSE /\ closing' = "sleep"
       \/ proc_alive /\ proc_alive' = proc_alive /\ closing' = AfterTimeout
    /\ UNCHANGED <<process, running, thread, line, data, hw_i, current_data,
                   bus_correction_factor, decode_warned,
                   factor_double, bus_double, worker_running, worker,
                   emitted, alertVars>>

\* monitor.py 135-137: kill() and wait().
CloseKill ==
    /\ closing = "kill"
    /\ proc_alive' = FALSE
    /\ closing' = "sleep"
    /\ UNCHANGED <<process, running, thread, line, data, hw_i, current_data,
                   bus_correction_factor, decode_warned,
                   factor_double, bus_double, worker_running, worker,
                   emitted, alertVars>>

\* monitor.py 140-141: sleep(0.5), then self.process = None; close returns.
CloseRelease ==
    /\ closing = "sleep"
    /\ process' = "None"
    /\ closing' = "returned"
    /\ UNCHANGED <<proc_alive, running, thread, line, data, hw_i, current_data,
                   bus_correction_factor, decode_warned,
                   factor_double, bus_double, worker_running, worker,
                   emitted, alertVars>>

Next ==
    \/ LoopCheck
    \/ ReadLine
    \/ ReadEOF
    \/ ReadError
    \/ SanitizeEmpty
    \/ SanitizeBadShape
    \/ SanitizeStep
    \/ Publish
    \/ ProcessExits
    \/ WorkerTick
    \/ WorkerExit
    \/ CloseEventStop
    \/ CloseEventWait
    \/ CloseBegin
    \/ CloseTerminate
    \/ CloseKill
    \/ CloseRelease

Spec == Init /\ [][Next]_vars

\* The steps the read thread takes without waiting for the process: all of
\* _read_loop but a readline that returns a line.
ReadLoopStep ==
    \/ LoopCheck
    \/ ReadEOF
    \/ ReadError
    \/ SanitizeEmpty
    \/ SanitizeBadShape
    \/ SanitizeStep
    \/ Publish

\* The steps of close() once it is called: straight-line code whose waits are
\* bounded (wait(timeout=1), sleep(0.5)) or end with the killed process.
CloseStep ==
    \/ CloseBegin
    \/ CloseTerminate
    \/ CloseKill
    \/ CloseRelease

\* The program under fair scheduling of the read thread and of a close() call
\* in progress. Nothing forces the window to be closed, the process to exit
\* or the process to write a line.
SpecLive ==
    /\ Init
    /\ [][Next]_vars
    /\ WF_vars(ReadLoopStep)
    /\ WF_vars(CloseStep)

\* ------------------------------------------------------ alerts.py: actions
\* alerts.py 12-18: the rule built from min_val, max_val, sound and notify is
\* stored under sensor_name.
set_alert(sensor_name, rule) ==
    /\ alerts' = MapSet(alerts, sensor_name, rule)
    /\ UNCHANGED <<monitorVars, uiVars, last_alert_time, now, ui_data,
                   triggers, dispatched, check_raised, dispatch_total,
                   tasks>>

\* alerts.py 20-22.
remove_alert(sensor_name) ==
    /\ alerts' = IF sensor_name \in DOMAIN alerts
                 THEN [k \in DOMAIN alerts \ {sensor_name} |-> alerts[k]]
                 ELSE alerts
    /\ UNCHANGED <<monitorVars, uiVars, last_alert_time, now, ui_data,
                   triggers, dispatched, check_raised, dispatch_total,
                   tasks>>

\* ui.py 421, 407: the sensor context menu sets or removes a rule.
SetAlertCall ==
    \E name \in AlertNames : \E rule \in RulePool : set_alert(name, rule)

RemoveAlertCall == \E name \in AlertNames : remove_alert(name)

\* alerts.py 24-45, called from ui.py 383 with the emitted snapshot.
check_alerts(snapshot) ==
    LET st == CheckFrom(_flatten_data(snapshot, 1), 1, alerts, now,
                        [last |-> last_alert_time, spawned |-> <<>>,
                         tasks |-> <<>>, calls |-> <<>>, raised |-> FALSE])
    IN  /\ ui_data' = snapshot
        /\ last_alert_time' = st.last
        /\ triggers' = st.calls
        /\ dispatched' = st.spawned
        /\ check_raised' = st.raised
        /\ tasks' = st.tasks
        /\ dispatch_total' =
              [n \in AlertNames |-> dispatch_total[n] + CountOf(st.spawned, n)]
        /\ UNCHANGED <<monitorVars, uiVars, alerts, now>>

CheckAlertsStep == \E snapshot \in AlertSnapshots : check_alerts(snapshot)

\* The same call on snapshots whose sensors breach the rules of RulePool.
CheckBreaches == \E snapshot \in BreachSnapshots : check_alerts(snapshot)

\* ui.py 37: time passes between two evaluations.
Tick ==
    /\ now + TickSeconds <= MaxTicks * TickSeconds
    /\ now' = now + TickSeconds
    /\ UNCHANGED <<monitorVars, uiVars, alerts, last_alert_time, ui_data,
                   triggers, dispatched, check_raised, dispatch_total,
                   tasks>>

\* The window is built and the process started; no rule is set yet.
InitAlerts ==
    /\ process = "Popen" /\ proc_alive = TRUE /\ running = TRUE
    /\ thread = "while"
    /\ line = Garbage
    /\ data = NoData
    /\ hw_i = 1
    /\ current_data = <<>>
    /\ bus_correction_factor = None
    /\ decode_warned = FALSE
    /\ factor_double = NoFloat
    /\ bus_double = NoFloat
    /\ closing = "open"
    /\ worker_running = TRUE
    /\ worker = "loop"
    /\ emitted = <<>>
    /\ AlertInit

\* Rule table operations and evaluations at one instant, on wide snapshots.
NextAlerts ==
    \/ SetAlertCall
    \/ RemoveAlertCall
    \/ CheckAlertsStep

SpecAlerts == InitAlerts /\ [][NextAlerts]_vars

\* Evaluations of breaching snapshots as time passes.
NextDebounce ==
    \/ SetAlertCall
    \/ RemoveAlertCall
    \/ CheckBreaches
    \/ Tick

SpecDebounce == InitAlerts /\ [][NextDebounce]_vars

\* alerts.py 58, 62: the target of a started thread returns.
TaskEnds ==
    /\ \E i \in 1..Len(tasks) :
          /\ tasks[i].state = "started"
          /\ tasks' = [tasks EXCEPT ![i].state = "finished"]
    /\ UNCHANGED <<monitorVars, uiVars, alerts, last_alert_time, now, ui_data,
                   triggers, dispatched, check_raised, dispatch_total>>

\* Evaluations of breaching snapshots as time passes and the threads they
\* started run.
NextTasks ==
    \/ SetAlertCall
    \/ CheckBreaches
    \/ Tick
    \/ TaskEnds

SpecTasks == InitAlerts /\ [][NextTasks]_vars

\* ------------------------------------- one sanitizer cycle, on wide inputs
SeqsUpTo(S, n) == UNION {[1..k -> S] : k \in 0..n}

\* Sensor lists of a node: Bus Speed first, last, absent, of another type,
\* twice, null, zero, not a number, just above the limit, and two readings
\* whose quotient by 100.0 is not a double, and with fields missing.
SensorLists ==
    { <<Bus300, Core, Temp>>,
      <<Core, Bus600>>,
      <<Bus150, Core>>,
      <<Core, Temp>>,
      <<Sensor("Bus Speed", "Temperature", Whole(300), Whole(200), None), Core>>,
      <<Bus300, Bus600>>,
      <<Sensor("Bus Speed", "Clock", None, Whole(200), Whole(600)), Core>>,
      <<Sensor("Bus Speed", "Clock", Whole(0), Whole(0), Whole(600)), Temp>>,
      <<Sensor("Bus Speed", "Clock", Whole(151), None, None),
        Sensor("Core Clock", "Clock", None, Whole(755), None)>>,
      <<BusStr, Core>>,
      <<Bus300, Sensor("Core Clock", "Clock", Str, None, None)>>,
      <<Bus486, Core24165>>,
      <<Bus201>>,
      <<BusNoMin, CoreNoValue>>,
      <<>> }

WideNodes ==
    {Hardware(t, t, sensors) : t \in {"Cpu", "Gpu"}, sensors \in SensorLists}

\* The values json.loads can return for a line.
WideData ==
    {JArray(nodes) : nodes \in SeqsUpTo(WideNodes, MaxNodes)}
        \cup {JValue("null", TRUE), JValue("number", TRUE),
              JValue("number", FALSE), JValue("object", FALSE)}

\* The states of the factor at the start of a cycle: unset, or the ratio of an
\* earlier unreasonable reading.
FactorStates ==
    {None} \cup {Div(Whole(v), Whole(NominalBus)) : v \in {151, 300, 600}}

\* The doubles an earlier cycle left with the factor f it recorded.
RecordedDoubles(f) ==
    IF f = None
    THEN [factor |-> NoFloat, bus |-> NoFloat]
    ELSE Doubles((f.n * NominalBus) \div f.d)

\* The read loop has parsed a line and is about to sanitize it, in any state
\* of the factor earlier cycles can have left.
InitSanitize ==
    /\ process = "Popen" /\ proc_alive = TRUE /\ running = TRUE
    /\ thread = "sanitize"
    /\ \E f \in FactorStates :
          /\ bus_correction_factor = f
          /\ factor_double = RecordedDoubles(f).factor
          /\ bus_double = RecordedDoubles(f).bus
    /\ \E d \in WideData : line = JsonLine(d) /\ data = d
    /\ hw_i = 1
    /\ current_data = <<>>
    /\ decode_warned = FALSE
    /\ closing = "open"
    /\ worker_running = TRUE
    /\ worker = "loop"
    /\ emitted = <<>>
    /\ AlertInit

NextSanitize ==
    \/ SanitizeEmpty
    \/ SanitizeBadShape
    \/ SanitizeStep
    \/ Publish

SpecSanitize == InitSanitize /\ [][NextSanitize]_vars

\* ------------------------------------------------------------------ claims
\* The read loop has just stored the sanitized snapshot of the line it holds.
JustPublished ==
    thread = "while" /\ line.valid /\ line.json.k = "array" /\ ~Falsy(line.json)

\* snapshot is the complete sanitizer output of one feed line, sanitized
\* starting with factor f0.
IsSnapshotOf(snapshot, l, f0) ==
    /\ l.valid
    /\ l.json.k = "array"
    /\ LET r == _sanitize_data(l.json.nodes, 1, f0)
       IN  ~r.raised /\ snapshot = r.nodes

\* C1: whatever the interleaving of the read loop with get_data callers, a
\* value get_data returns (now, or the one the worker last emitted) is the
\* initial empty sequence or the complete sanitized snapshot of exactly one
\* feed line, never a partly corrected one.
C1_ReadersSeeWholeSnapshots ==
    \A v \in {get_data, emitted} :
        \/ v = <<>>
        \/ \E l \in FeedLines : \E f0 \in {None, bus_correction_factor} :
              IsSnapshotOf(v, l, f0)

\* C1 witness: the worker holds a snapshot while the read loop is half way
\* through correcting a two-node line whose second node is still to correct.
C1_Witness ==
    /\ emitted # <<>>
    /\ thread = "sanitize"
    /\ hw_i = 2
    /\ Len(data.nodes) = 2
    /\ data.nodes # line.json.nodes
    /\ NeedsCorrection(data.nodes[2], FindBusSpeed(data.nodes[2].Sensors, 1))
    /\ get_data # data.nodes

\* C2 (as claimed): once close() has returned, the read loop thread has
\* finished (or was never started).
C2_CloseWaitsForReadLoop ==
    closing = "returned" => thread \in {"ended", "none"}

\* C3 (as claimed): the read loop ends only on end-of-stream or on a stop
\* request; no line it reads ends it.
C3_NoLineEndsReadLoop ==
    thread = "ended" => (~running \/ ~proc_alive)

\* C4: once set, the correction factor is never changed, recomputed or
\* cleared by any step.
C4_FactorSetOnce ==
    [][bus_correction_factor # None
        => bus_correction_factor' = bus_correction_factor]_vars

\* C4 witness: with a factor recorded from an earlier line, a snapshot is
\* published whose first node reports an unreasonable Bus Speed of another
\* ratio.
C4_Witness ==
    /\ JustPublished
    /\ bus_correction_factor # None
    /\ LET hw == line.json.nodes[1]
           b == FindBusSpeed(hw.Sensors, 1)
       IN  /\ NeedsCorrection(hw, b)
           /\ Div(hw.Sensors[b].Value, Whole(NominalBus)) # bus_correction_factor

\* q is x divided by f (q * f = x), for numbers; a null stays null.
IsQuotient(q, x, f) ==
    IF x.k = "num"
    THEN q.k = "num" /\ q.n * f.n * x.d = x.n * f.d * q.d
    ELSE q = x

\* The three fields of a published sensor are the raw ones divided by f.
SensorDividedBy(pub, raw, f) ==
    /\ IsQuotient(pub.Value, raw.Value, f)
    /\ IsQuotient(pub.Min, raw.Min, f)
    /\ IsQuotient(pub.Max, raw.Max, f)

\* The raw node's first Bus Speed Clock sensor reads a number above 150.
ReadsAboveLimit(hw) ==
    LET b == FindBusSpeed(hw.Sensors, 1)
    IN  /\ b # 0
        /\ hw.Sensors[b].Value.k = "num"
        /\ hw.Sensors[b].Value.n > 150 * hw.Sensors[b].Value.d

\* The sensors of a Cpu node the correction is about: its first Bus Speed
\* Clock sensor and its Clock sensors of any other name.
IsClockToCorrect(hw, j) ==
    \/ j = FindBusSpeed(hw.Sensors, 1)
    \/ hw.Sensors[j].Type = "Clock" /\ hw.Sensors[j].Name # "Bus Speed"

RawNodes == line.json.nodes

\* C7 (as claimed): whenever a factor is recorded, every Cpu node with a Bus
\* Speed Clock sensor is published with that sensor and its other Clock
\* sensors divided by the stored factor.
C7_EveryCpuNodeDivided ==
    (JustPublished /\ bus_correction_factor # None) =>
        \A i \in 1..Len(RawNodes) :
            (RawNodes[i].Type = "Cpu" /\ FindBusSpeed(RawNodes[i].Sensors, 1) # 0) =>
                \A j \in 1..Len(RawNodes[i].Sensors) :
                    IsClockToCorrect(RawNodes[i], j) =>
                        SensorDividedBy(current_data[i].Sensors[j],
                                        RawNodes[i].Sensors[j],
                                        bus_correction_factor)

\* C7 (amended): every Cpu node whose Bus Speed Clock sensor reads above 150
\* in this cycle is published with that sensor and its other Clock sensors
\* divided by the single stored factor, which is then recorded.
C7_AnomalousCpuNodesDivided ==
    JustPublished =>
        \A i \in 1..Len(RawNodes) :
            (RawNodes[i].Type = "Cpu" /\ ReadsAboveLimit(RawNodes[i])) =>
                /\ bus_correction_factor # None
                /\ \A j \in 1..Len(RawNodes[i].Sensors) :
                    IsClockToCorrect(RawNodes[i], j) =>
                        SensorDividedBy(current_data[i].Sensors[j],
                                        RawNodes[i].Sensors[j],
                                        bus_correction_factor)

\* C7 witness: a published Cpu node reads above 150 with a ratio other than
\* the stored factor, and its Core Clock was divided.
C7_Witness ==
    /\ JustPublished
    /\ \E i \in 1..Len(RawNodes) :
        LET hw == RawNodes[i]
            b == FindBusSpeed(hw.Sensors, 1)
        IN  /\ hw.Type = "Cpu"
            /\ ReadsAboveLimit(hw)
            /\ Div(hw.Sensors[b].Value, Whole(NominalBus)) # bus_correction_factor
            /\ \E j \in 1..Len(hw.Sensors) :
                /\ hw.Sensors[j].Name = "Core Clock"
                /\ hw.Sensors[j].Value.k = "num"
                /\ current_data[i].Sensors[j].Value # hw.Sensors[j].Value

\* C8: whatever the number of cycles, each field of a published snapshot is
\* the raw field of that cycle's line, or the raw field divided by the factor
\* once: never divided twice.
C8_DividedAtMostOnce ==
    (JustPublished /\ bus_correction_factor # None) =>
        \A i \in 1..Len(RawNodes) :
            \A j \in 1..Len(RawNodes[i].Sensors) :
                LET pub == current_data[i].Sensors[j]
                    raw == RawNodes[i].Sensors[j]
                IN  /\ pub.Value = raw.Value
                       \/ IsQuotient(pub.Value, raw.Value, bus_correction_factor)
                    /\ pub.Min = raw.Min
                       \/ IsQuotient(pub.Min, raw.Min, bus_correction_factor)
                    /\ pub.Max = raw.Max
                       \/ IsQuotient(pub.Max, raw.Max, bus_correction_factor)

\* C8 witness: the worker holds the corrected snapshot of an earlier cycle
\* and a later cycle has published another corrected snapshot.
C8_Witness ==
    /\ JustPublished
    /\ current_data # RawNodes
    /\ emitted # <<>>
    /\ emitted # current_data
    /\ \E l \in FeedLines :
        IsSnapshotOf(emitted, l, bus_correction_factor) /\ emitted # l.json.nodes

\* C9: the sanitizer keeps the count and order of nodes and sensors and every
\* name and type, and leaves every node that is not a Cpu and every sensor
\* that is not a Clock exactly as in the input.
C9_OthersUntouched ==
    JustPublished =>
        /\ Len(current_data) = Len(RawNodes)
        /\ \A i \in 1..Len(RawNodes) :
            LET pub == current_data[i]
                raw == RawNodes[i]
            IN  /\ pub.Name = raw.Name
                /\ pub.Type = raw.Type
                /\ Len(pub.Sensors) = Len(raw.Sensors)
                /\ raw.Type # "Cpu" => pub = raw
                /\ \A j \in 1..Len(raw.Sensors) :
                    /\ pub.Sensors[j].Name = raw.Sensors[j].Name
                    /\ pub.Sensors[j].Type = raw.Sensors[j].Type
                    /\ raw.Sensors[j].Type # "Clock" => pub.Sensors[j] = raw.Sensors[j]

\* C9 witness: with a factor recorded, a snapshot is published holding a
\* corrected Cpu node that has a Temperature sensor, and a node that is not a
\* Cpu whose Bus Speed Clock sensor reads above 150.
C9_Witness ==
    /\ JustPublished
    /\ bus_correction_factor # None
    /\ \E i, k \in 1..Len(RawNodes) :
        /\ RawNodes[i].Type = "Cpu"
        /\ current_data[i] # RawNodes[i]
        /\ \E j \in 1..Len(RawNodes[i].Sensors) :
            RawNodes[i].Sensors[j].Type = "Temperature"
        /\ RawNodes[k].Type # "Cpu"
        /\ ReadsAboveLimit(RawNodes[k])

\* C10: a Cpu node with no Bus Speed Clock sensor, or whose Bus Speed value is
\* not above 150, is published exactly as in the input, also when a factor is
\* recorded.
C10_NominalCpuNodeUntouched ==
    JustPublished =>
        \A i \in 1..Len(RawNodes) :
            (RawNodes[i].Type = "Cpu" /\ ~ReadsAboveLimit(RawNodes[i])) =>
                current_data[i] = RawNodes[i]

\* C10 witness: with a factor recorded, a snapshot is published in which one
\* Cpu node was corrected and another, reading exactly 150, was not.
C10_Witness ==
    /\ JustPublished
    /\ bus_correction_factor # None
    /\ \E i, k \in 1..Len(RawNodes) :
        /\ current_data[i] # RawNodes[i]
        /\ RawNodes[k].Type = "Cpu"
        /\ FindBusSpeed(RawNodes[k].Sensors, 1) # 0
        /\ RawNodes[k].Sensors[FindBusSpeed(RawNodes[k].Sensors, 1)].Value
              = Whole(BusSpeedLimit)
        /\ current_data[k] = RawNodes[k]

\* C5: a check_alerts call dispatches for sensor name n exactly once if it
\* triggers n and n has no fire time recorded less than 10 seconds before the
\* call, and not at all otherwise: triggers less than 10 s after a dispatch
\* are suppressed, a trigger exactly 10 s after it dispatches again.
C5_DebounceWindow ==
    [][check_alerts(ui_data') =>
        \A n \in AlertNames :
            CountOf(dispatched', n) =
                IF /\ CountOf(triggers', n) > 0
                   /\ ~(n \in DOMAIN last_alert_time
                        /\ now - last_alert_time[n] < 10)
                THEN 1 ELSE 0]_vars

\* C5 witness: a sensor has been dispatched twice, the second time exactly
\* 10 seconds after the first (which was at time 0).
C5_Witness ==
    \E n \in AlertNames :
        /\ dispatch_total[n] = 2
        /\ n \in DOMAIN last_alert_time
        /\ last_alert_time[n] = now
        /\ now = 10
        /\ CountOf(dispatched, n) = 1

\* The breach the claim names for a value under a rule.
ClaimedBreach(val, rule) ==
    IF rule.max # None /\ val.k = "num" /\ val.n * rule.max.d > rule.max.n * val.d
    THEN "High"
    ELSE IF rule.min # None /\ val.k = "num"
            /\ val.n * rule.min.d < rule.min.n * val.d
    THEN "Low"
    ELSE ""

\* The triggers the claim names for the sensors from i on.
RECURSIVE ClaimedTriggers(_, _, _)
ClaimedTriggers(sensors, i, rules) ==
    IF i > Len(sensors) THEN <<>>
    ELSE LET s == sensors[i]
             rest == ClaimedTriggers(sensors, i + 1, rules)
         IN  IF s.Name \in DOMAIN rules /\ ClaimedBreach(s.Value, rules[s.Name]) # ""
             THEN <<[name |-> s.Name,
                     msg |-> [kind |-> ClaimedBreach(s.Value, rules[s.Name]),
                              value |-> s.Value]]>> \o rest
             ELSE rest

\* C6 (as claimed): check_alerts triggers, for each sensor whose name has a
\* rule, High when max is set and value > max, otherwise Low when min is set
\* and value < min, otherwise nothing.
C6_EverySensorJudged ==
    [][check_alerts(ui_data') =>
        triggers' = ClaimedTriggers(_flatten_data(ui_data', 1), 1, alerts)]_vars


\* C11: a line json.loads cannot parse is ignored: the step that reads it
\* leaves the stored snapshot and the correction factor as they were and
\* takes the read loop back to its while test, not to its end; and a
\* well-formed line read after such a line is still stored as its complete
\* sanitized snapshot.
C11_UnparseableLineIgnored ==
    /\ [][(ReadLine /\ ~JsonLoads(line').ok)
            => /\ current_data' = current_data
               /\ bus_correction_factor' = bus_correction_factor
               /\ thread' = "while"
               /\ running' = running]_vars
    /\ []((decode_warned /\ JustPublished)
            => \E f0 \in {None, bus_correction_factor} :
                  IsSnapshotOf(current_data, line, f0))

\* C11 witness: an unparseable line was read and logged, and a later line
\* that needed correction has been sanitized and stored.
C11_Witness ==
    /\ decode_warned
    /\ JustPublished
    /\ current_data # <<>>
    /\ current_data # line.json.nodes
    /\ get_data = current_data


\* C12: when start_process failed, construction has completed with no
\* process, no process running and no read thread; from then on get_data
\* returns the empty snapshot (and so does every emission of the worker), the
\* running flag stays clear, and close() returns without touching a process:
\* it never reaches terminate, kill or the release of a handle.
C12_FailedLaunchIsHarmless ==
    thread = "none"
        => /\ process = "None"
           /\ ~proc_alive
           /\ ~running
           /\ get_data = <<>>
           /\ emitted = <<>>
           /\ closing \notin {"terminate", "kill", "sleep"}

\* C12 witness: after a failed launch the window was closed: the worker has
\* stopped and close() has returned.
C12_Witness ==
    /\ thread = "none"
    /\ process = "None"
    /\ worker = "stopped"
    /\ closing = "returned"
    /\ get_data = <<>>


\* C13: close() never leaves the external process running: past terminate,
\* wait and (when the wait timed out) kill and wait, the process has exited;
\* once close() has returned on a channel that was started, the process has
\* exited and self.process holds no handle; and the handle is never dropped
\* while the process runs.
C13_CloseStopsProcess ==
    /\ closing = "sleep" => ~proc_alive
    /\ (closing = "returned" /\ thread # "none")
          => (~proc_alive /\ process = "None")
    /\ process = "None" => ~proc_alive

\* C13 witness: close() has returned on a started channel that had published
\* a snapshot; its process is gone and its handle released.
C13_Witness ==
    /\ closing = "returned"
    /\ thread # "none"
    /\ current_data # <<>>
    /\ process = "None"
    /\ ~proc_alive
    /\ ~running


\* C14: the store is latest-wins. It changes only when the read loop stores
\* the outcome of the line it has just sanitized; right after such a step
\* get_data returns exactly the complete sanitized snapshot of that most
\* recently read line; every read of the worker returns what the store holds
\* at that instant, so never a snapshot older than the last one stored; and a
\* read never waits for the read loop: it can be taken in every state in
\* which the worker is in its loop, wherever the read loop is.
C14_LatestWins ==
    /\ [][/\ WorkerTick => emitted' = current_data
          /\ current_data' # current_data
                => /\ thread = "sanitize"
                   /\ thread' = "while"
                   /\ line' = line
                   /\ current_data' = IF Falsy(data) THEN <<>> ELSE data.nodes
                   /\ get_data' = current_data']_vars
    /\ [](JustPublished
            => \E f0 \in {None, bus_correction_factor} :
                  IsSnapshotOf(get_data, line, f0))
    /\ []((worker = "loop" /\ worker_running) => ENABLED WorkerTick)

\* C14 witness: the worker has emitted one snapshot, the read loop has since
\* stored a different one, and the read loop is in the middle of a third
\* line; get_data returns the stored one.
C14_Witness ==
    /\ emitted # <<>>
    /\ current_data # <<>>
    /\ emitted # current_data
    /\ thread = "sanitize"
    /\ hw_i = 2
    /\ worker = "loop"
    /\ worker_running
    /\ get_data = current_data


\* The sensors check_alerts walks through, and those among them with no rule.
Walked(snapshot) == _flatten_data(snapshot, 1)

Unruled(snapshot) ==
    {i \in 1..Len(Walked(snapshot)) : Walked(snapshot)[i].Name \notin DOMAIN alerts}

\* C15: in every check_alerts call, a sensor whose name has no rule causes
\* no _trigger_alert call, no dispatch and no change of the debounce state
\* under its name, whatever its value; the call raises only when a sensor
\* that has a rule carries a value that is no number; and a snapshot none of
\* whose sensors has a rule leaves no trace at all.
C15_UnruledSensorsIgnored ==
    [][check_alerts(ui_data')
        => LET sensors == Walked(ui_data')
               unruled == Unruled(ui_data')
           IN  /\ \A i \in unruled :
                    LET name == sensors[i].Name
                    IN  /\ CountOf(triggers', name) = 0
                        /\ CountOf(dispatched', name) = 0
                        /\ (name \in DOMAIN last_alert_time')
                              = (name \in DOMAIN last_alert_time)
                        /\ name \in DOMAIN last_alert_time
                              => last_alert_time'[name] = last_alert_time[name]
                        /\ name \in AlertNames
                              => dispatch_total'[name] = dispatch_total[name]
               /\ check_raised'
                    => \E i \in 1..Len(sensors) :
                          /\ i \notin unruled
                          /\ sensors[i].Value.k # "num"
               /\ unruled = 1..Len(sensors)
                    => /\ ~check_raised'
                       /\ triggers' = <<>>
                       /\ dispatched' = <<>>
                       /\ last_alert_time' = last_alert_time]_vars

\* C15 witness: an evaluation went over a sensor with a rule, which it
\* triggered, and over a sensor without a rule whose value is null (and one
\* whose name still has a debounce entry from before its rule was removed).
C15_Witness ==
    /\ Len(ui_data) = 2
    /\ ~check_raised
    /\ Len(triggers) = 1
    /\ Unruled(ui_data) = {2}
    /\ Walked(ui_data)[2].Value = None
    /\ DOMAIN alerts = {"CPU Temperature"}
    /\ "Fan Speed" \in DOMAIN last_alert_time


\* C16 (as claimed): when check_alerts meets a sensor that has a rule and
\* whose value is null, the call does not raise, and every later sensor of
\* the same snapshot is still judged in that call: one that breaches its
\* rule is triggered with its value.
C16_NullValueSkipped ==
    [][check_alerts(ui_data')
        => LET sensors == Walked(ui_data')
           IN  \A i \in 1..Len(sensors) :
                  (i \notin Unruled(ui_data') /\ sensors[i].Value = None)
                    => /\ ~check_raised'
                       /\ \A j \in (i + 1)..Len(sensors) :
                             (/\ j \notin Unruled(ui_data')
                              /\ ClaimedBreach(sensors[j].Value,
                                               alerts[sensors[j].Name]) # "")
                               => \E k \in 1..Len(triggers') :
                                     /\ triggers'[k].name = sensors[j].Name
                                     /\ triggers'[k].msg.value = sensors[j].Value]_vars


\* C17: set_alert(name, ...) leaves under name exactly the rule just given,
\* whatever was there, and leaves every other rule as it was; remove_alert
\* (name) deletes the rule of name and no other, and changes nothing when
\* name has no rule; and the table changes by these two calls only, so it
\* holds for each name the rule of the last set_alert no remove_alert
\* followed.
C17_RuleTable ==
    [][/\ \A n \in AlertNames :
            /\ \A r \in RulePool :
                  set_alert(n, r)
                    => /\ DOMAIN alerts' = DOMAIN alerts \cup {n}
                       /\ alerts'[n] = r
                       /\ \A o \in DOMAIN alerts \ {n} : alerts'[o] = alerts[o]
            /\ remove_alert(n)
                  => /\ DOMAIN alerts' = DOMAIN alerts \ {n}
                     /\ \A o \in DOMAIN alerts' : alerts'[o] = alerts[o]
                     /\ n \notin DOMAIN alerts => alerts' = alerts
       /\ alerts' # alerts => (SetAlertCall \/ RemoveAlertCall)]_vars

\* C17 witness: the rule of CPU Temperature was replaced (the last
\* evaluation triggered High under a rule with a max, the table now holds one
\* without), and the rule of Fan Speed, which had triggered, was removed.
C17_Witness ==
    /\ DOMAIN alerts = {"CPU Temperature"}
    /\ alerts["CPU Temperature"].max = None
    /\ alerts["CPU Temperature"].min # None
    /\ Len(triggers) >= 1
    /\ triggers[1].name = "CPU Temperature"
    /\ triggers[1].msg.kind = "High"
    /\ "Fan Speed" \in DOMAIN last_alert_time


\* C18: once the process has exited (readline returns end of stream), or
\* once close() has asked the loop to stop by clearing running, the read
\* thread eventually leaves _read_loop: it neither stays in readline for ever
\* nor goes round the loop for ever.
C18_ReadLoopExits ==
    (~proc_alive \/ ~running) ~> (thread \in {"ended", "none"})

\* C18 witness: the window was closed while the read thread was running;
\* close() has returned and the read thread has left its loop.
C18_Witness ==
    /\ thread = "ended"
    /\ ~running
    /\ closing = "returned"
    /\ process = "None"
    /\ line.valid


\* C19: a read that meets end of stream, and a read that raises, end the
\* read loop; a read loop that has ended is never started again, and from
\* then on the store and the correction factor are never written, so
\* get_data keeps returning the last snapshot stored; a process that has
\* exited is never running again and a released handle is never replaced.
C19_NoRespawn ==
    [][/\ ReadEOF => thread' = "ended"
       /\ ReadError => thread' = "ended"
       /\ thread = "ended"
            => /\ thread' = "ended"
               /\ current_data' = current_data
               /\ get_data' = get_data
               /\ bus_correction_factor' = bus_correction_factor
       /\ ~proc_alive => ~proc_alive'
       /\ process = "None" => process' = "None"]_vars

\* C19 witness: the process exited by itself after a snapshot was stored;
\* the read loop has ended on end of stream, the window is still open, and
\* the worker's last read returned that snapshot.
C19_Witness ==
    /\ thread = "ended"
    /\ ~proc_alive
    /\ running
    /\ closing = "open"
    /\ current_data # <<>>
    /\ emitted = current_data
    /\ line.valid /\ line.json.k = "array"


\* The raw node is a Cpu node whose first Bus Speed Clock sensor reads above
\* 150.
Anomalous(hw) == hw.Type = "Cpu" /\ ReadsAboveLimit(hw)

\* Python's 100.0 and 4.86 (float.hex: 0x1.9p+6, 0x1.370a3d70a3d71p+2), and
\* the doubles within one unit in the last place of 100.0.
Double100 == [hi |-> 52428800, lo |-> 0, e |-> -46]

Double486 == [hi |-> 40768634, lo |-> 118111601, e |-> -50]

NearDouble100 ==
    {Double100,
     [hi |-> 52428800, lo |-> 1, e |-> -46],
     [hi |-> 52428799, lo |-> 134217727, e |-> -46]}

\* The step changes the factor only when none is recorded and the node at
\* hand is the first anomalous node of the line; the factor is then that
\* node's reading divided by 100, in doubles 4.86 for a reading of 486; and a
\* step on an anomalous node with no factor recorded records one.
FactorDerivation ==
    /\ bus_correction_factor' # bus_correction_factor
          => /\ bus_correction_factor = None
             /\ thread = "sanitize"
             /\ hw_i <= Len(RawNodes)
             /\ Anomalous(RawNodes[hw_i])
             /\ \A j \in 1..(hw_i - 1) : ~Anomalous(RawNodes[j])
             /\ IsQuotient(bus_correction_factor',
                           Whole(BusReading(RawNodes[hw_i])), Whole(100))
             /\ factor_double' # NoFloat
             /\ BusReading(RawNodes[hw_i]) = 486
                   => factor_double' = Double486
    /\ (SanitizeStep /\ bus_correction_factor = None
          /\ Anomalous(data.nodes[hw_i]))
          => bus_correction_factor' # None

\* C20 (as claimed): the factor is recorded only from the first Cpu node of
\* the snapshot whose Bus Speed reads above 150, while none is recorded, as
\* the reading divided by 100 (4.86 for 486), and in that cycle that node's
\* corrected Bus Speed is 100.
C20_CorrectedBusIs100 ==
    [][/\ FactorDerivation
       /\ bus_correction_factor' # bus_correction_factor
             => bus_double' = Double100]_vars

\* C20 (amended): the same derivation; that node's corrected Bus Speed,
\* reading / (reading / 100.0) in doubles, is within one unit in the last
\* place of 100, and exactly 100 for a reading of 486.
C20_CorrectedBusIsNear100 ==
    [][/\ FactorDerivation
       /\ bus_correction_factor' # bus_correction_factor
             => /\ bus_double' \in NearDouble100
                /\ BusReading(RawNodes[hw_i]) = 486
                      => bus_double' = Double100]_vars

\* C20 witness: a line whose first Cpu node reads a nominal 150 and whose
\* second reads 201 has been sanitized: the factor 2.01 was recorded from
\* the second node, whose corrected Bus Speed is the double next above 100.
C20_Witness ==
    /\ JustPublished
    /\ Len(RawNodes) = 2
    /\ RawNodes[1].Type = "Cpu"
    /\ FindBusSpeed(RawNodes[1].Sensors, 1) # 0
    /\ ~Anomalous(RawNodes[1])
    /\ Anomalous(RawNodes[2])
    /\ BusReading(RawNodes[2]) = 201
    /\ bus_correction_factor = Num(201, 100)
    /\ bus_double = [hi |-> 52428800, lo |-> 1, e |-> -46]

\* The scalar fields of a sensor, and those its dict has a key for.
ScalarFields == {"Value", "Min", "Max"}
FieldsOf(sensor) == {F \in ScalarFields : sensor[F] # Absent}

\* The raw Cpu node hw is corrected in its cycle.
IsCorrected(hw) == hw.Type = "Cpu" /\ ReadsAboveLimit(hw)

\* C21: partial correction never fabricates data: in a published snapshot
\* every sensor has exactly the fields of the raw sensor, a field that was
\* missing or null is still missing or null, and on a corrected Cpu node every
\* number field of the Bus Speed sensor and of the other Clock sensors is the
\* raw number divided by the factor, whatever fields the sensor lacks.
C21_NeverFabricates ==
    JustPublished =>
        /\ Len(current_data) = Len(RawNodes)
        /\ \A i \in 1..Len(RawNodes) :
              /\ Len(current_data[i].Sensors) = Len(RawNodes[i].Sensors)
              /\ \A j \in 1..Len(RawNodes[i].Sensors) :
                    LET raw == RawNodes[i].Sensors[j]
                        pub == current_data[i].Sensors[j]
                    IN  /\ FieldsOf(pub) = FieldsOf(raw)
                        /\ \A F \in ScalarFields :
                              raw[F] \in {Absent, None} => pub[F] = raw[F]
                        /\ IsCorrected(RawNodes[i])
                               /\ IsClockToCorrect(RawNodes[i], j)
                           => \A F \in ScalarFields :
                                 IsQuotient(pub[F], raw[F],
                                            bus_correction_factor)

\* C21 witness: a corrected Cpu node is published whose Bus Speed sensor has
\* no Min key and a null Max, and whose other Clock sensor has no Value and
\* no Max key but a Min, which was divided.
C21_Witness ==
    /\ JustPublished
    /\ \E i \in 1..Len(RawNodes) :
          /\ IsCorrected(RawNodes[i])
          /\ RawNodes[i].Sensors = <<BusNoMin, CoreNoValue>>
          /\ current_data[i].Sensors[1].Value # BusNoMin.Value
          /\ current_data[i].Sensors[1].Min = Absent
          /\ current_data[i].Sensors[1].Max = None
          /\ current_data[i].Sensors[2].Value = Absent
          /\ current_data[i].Sensors[2].Min # CoreNoValue.Min
          /\ current_data[i].Sensors[2].Max = Absent
\* How many threads of seq run target for the sensor name n.
TasksFor(seq, target, n) ==
    Cardinality({i \in 1..Len(seq) :
                    seq[i].target = target /\ seq[i].name = n})

\* A trigger for n is suppressed: a fire time less than 10 s old is recorded.
Suppressed(n) ==
    n \in DOMAIN last_alert_time /\ now - last_alert_time[n] < 10

\* C22: in every check_alerts call, a sensor name that is triggered and not
\* suppressed has the time of the call recorded as its fire time, one sound
\* thread started if and only if its rule's sound flag is set and one
\* notification thread if and only if its notify flag is set (the time is
\* recorded whatever the flags); a name that is suppressed or not triggered
\* has no thread started; and when the call returns, having evaluated every
\* sensor, every thread it started is started and not waited for.
C22_SpawnPerFlags ==
    [][check_alerts(ui_data') =>
        /\ \A n \in AlertNames :
              IF CountOf(triggers', n) > 0 /\ ~Suppressed(n)
              THEN /\ n \in DOMAIN last_alert_time'
                   /\ last_alert_time'[n] = now
                   /\ TasksFor(tasks', "MessageBeep", n) =
                          IF alerts[n].sound THEN 1 ELSE 0
                   /\ TasksFor(tasks', "show_toast", n) =
                          IF alerts[n].notify THEN 1 ELSE 0
              ELSE /\ TasksFor(tasks', "MessageBeep", n) = 0
                   /\ TasksFor(tasks', "show_toast", n) = 0
        /\ \A i \in 1..Len(tasks') :
              /\ tasks'[i].state = "started"
              /\ tasks'[i].name \in AlertNames
              /\ tasks'[i].target \in {"MessageBeep", "show_toast"}]_vars

\* C22 witness: after a tick, a call on two breaching sensors of one name
\* under a rule with notify set and sound clear: the first trigger recorded
\* the time and started the notification thread alone, the second sensor was
\* evaluated with that thread still running and its trigger, suppressed,
\* started nothing.
C22_Witness ==
    /\ now > 0
    /\ Len(triggers) = 2
    /\ triggers[1].name = "CPU Temperature"
    /\ triggers[2].name = "CPU Temperature"
    /\ "CPU Temperature" \in DOMAIN alerts
    /\ ~alerts["CPU Temperature"].sound
    /\ alerts["CPU Temperature"].notify
    /\ "CPU Temperature" \in DOMAIN last_alert_time
    /\ last_alert_time["CPU Temperature"] = now
    /\ Len(tasks) = 1
    /\ tasks[1].target = "show_toast"
    /\ tasks[1].state = "started"
\* The fire time recorded for n, -1 when there is none.
FireTime(last, n) == IF n \in DOMAIN last THEN last[n] ELSE -1

\* C23: in every step, no entry of last_alert_time is deleted (remove_alert
\* included) and no recorded time decreases; the entry of a name changes only
\* in a check_alerts call where the name is triggered and not suppressed, and
\* then to the time of the call; a suppressed trigger leaves it as it was; so
\* a trigger 10 s or more after the previous dispatch, whatever suppressed
\* triggers came in between, is dispatched and records the time of the call.
C23_SuppressedKeepsWindow ==
    [][/\ DOMAIN last_alert_time \subseteq DOMAIN last_alert_time'
       /\ \A n \in DOMAIN last_alert_time' :
             /\ FireTime(last_alert_time', n) >= FireTime(last_alert_time, n)
             /\ FireTime(last_alert_time', n) # FireTime(last_alert_time, n)
                   => /\ check_alerts(ui_data')
                      /\ CountOf(triggers', n) > 0
                      /\ ~Suppressed(n)
                      /\ last_alert_time'[n] = now
       /\ check_alerts(ui_data') =>
             \A n \in AlertNames :
                 CountOf(triggers', n) > 0 =>
                     IF Suppressed(n)
                     THEN /\ last_alert_time'[n] = last_alert_time[n]
                          /\ CountOf(dispatched', n) = 0
                     ELSE /\ last_alert_time'[n] = now
                          /\ CountOf(dispatched', n) = 1]_vars

\* C23 witness: 8 s after its only dispatch a name is triggered again and
\* suppressed, and its fire time is still that of the dispatch; and a name
\* whose rule was removed still has its fire time.
C23_Witness ==
    \E n \in AlertNames : \E o \in AlertNames :
        /\ now = 8
        /\ CountOf(triggers, n) > 0
        /\ CountOf(dispatched, n) = 0
        /\ n \in DOMAIN last_alert_time
        /\ last_alert_time[n] = 0
        /\ dispatch_total[n] = 1
        /\ o \in DOMAIN last_alert_time
        /\ o \notin DOMAIN alerts
\* The places <<node, sensor>> of a snapshot where a sensor named n breaches
\* the rule set for n.
Breaching(snapshot, n) ==
    UNION {{<<i, j>> : j \in {j \in 1..Len(snapshot[i].Sensors) :
                /\ snapshot[i].Sensors[j].Name = n
                /\ n \in DOMAIN alerts
                /\ ClaimedBreach(snapshot[i].Sensors[j].Value, alerts[n]) # ""}} :
           i \in 1..Len(snapshot)}

\* The first place of P in snapshot order.
FirstPlace(P) ==
    CHOOSE p \in P :
        \A q \in P : p[1] < q[1] \/ (p[1] = q[1] /\ p[2] <= q[2])

\* The message is the one for the sensor at the first place of P, under the
\* rule of its name.
IsMessageOfFirst(msg, snapshot, P) ==
    /\ P # {}
    /\ LET p == FirstPlace(P)
           sensor == snapshot[p[1]].Sensors[p[2]]
       IN  /\ msg.value = sensor.Value
           /\ msg.kind = ClaimedBreach(sensor.Value, alerts[sensor.Name])

\* C24: rules and debounce are keyed by sensor name only: a check_alerts
\* call dispatches at most one alert for a name (at most one sound thread and
\* one notification thread), however many sensors of that name breach its
\* rule in the snapshot, and the alert it dispatches is for the first of them
\* in snapshot order: its message carries that sensor's value.
C24_OneAlertPerName ==
    [][check_alerts(ui_data') =>
        \A n \in AlertNames :
            /\ CountOf(dispatched', n) <= 1
            /\ TasksFor(tasks', "MessageBeep", n) <= 1
            /\ TasksFor(tasks', "show_toast", n) <= 1
            /\ \A k \in 1..Len(dispatched') :
                  dispatched'[k].name = n
                    => IsMessageOfFirst(dispatched'[k].msg, ui_data',
                                        Breaching(ui_data', n))
            /\ \A k \in 1..Len(tasks') :
                  tasks'[k].name = n
                    => IsMessageOfFirst(tasks'[k].msg, ui_data',
                                        Breaching(ui_data', n))]_vars

\* C24 witness: two nodes expose a CPU Temperature sensor, the first reads 10
\* and the second 90, under a rule of bounds 20 and 85: both were triggered,
\* and the one alert dispatched says Low: 10.
C24_Witness ==
    /\ Len(ui_data) = 2
    /\ ui_data[1].Sensors[1] = Reading("CPU Temperature", Whole(10))
    /\ ui_data[2].Sensors[1] = Reading("CPU Temperature", Whole(90))
    /\ Cardinality(Breaching(ui_data, "CPU Temperature")) = 2
    /\ Len(triggers) = 2
    /\ Len(dispatched) = 1
    /\ dispatched[1].name = "CPU Temperature"
    /\ dispatched[1].msg = [kind |-> "Low", value |-> Whole(10)]
    /\ Len(tasks) = 1
    /\ tasks[1].msg = [kind |-> "Low", value |-> Whole(10)]
\* The falsy values json.loads can return.
FalsyKinds == {"array", "null", "object", "number", "string", "boolean"}

\* C25: a line that parses to a falsy JSON value is not ignored like a line
\* that does not parse: the step that reads it logs no decode failure and
\* hands the value to the sanitizer, and the step that sanitizes it stores the
\* empty snapshot in place of whatever snapshot was stored, leaves the
\* correction factor as it was and takes the read loop back to its while
\* test.
C25_FalsyLineEmptiesStore ==
    /\ [][(ReadLine /\ JsonLoads(line').ok /\ Falsy(line'.json))
            => /\ decode_warned' = decode_warned
               /\ thread' = "sanitize"
               /\ data' = line'.json
               /\ data'.k \in FalsyKinds]_vars
    /\ [][(thread = "sanitize" /\ Falsy(data) /\ thread' # thread)
            => /\ data = line.json
               /\ current_data' = <<>>
               /\ get_data' = <<>>
               /\ bus_correction_factor' = bus_correction_factor
               /\ thread' = "while"]_vars

\* C25 witness: with a factor recorded and a corrected snapshot emitted by
\* the worker, a line holding null has been read and the store is empty.
C25_Witness ==
    /\ thread = "while"
    /\ line.valid
    /\ line.json = JValue("null", TRUE)
    /\ current_data = <<>>
    /\ bus_correction_factor # None
    /\ emitted # <<>>
    /\ ~decode_warned
====
